---------------------------- MODULE Spec2Model ----------------------------
(***************************************************************************)
(* Model of src/index.js: an Express gateway with four POST endpoints that *)
(* forward a prompt (and for three of them one uploaded file) to a         *)
(* generative-AI provider and relay the text that extractGeneratedText     *)
(* finds in the provider's response.                                       *)
(*                                                                         *)
(* Four specifications share the variables:                                *)
(*   Spec        one connection served request after request, the inputs   *)
(*               drawn from the full bounded sets;                         *)
(*   ConcSpec    NumReqs requests in flight at once, interleaved at the    *)
(*               await of the provider call;                               *)
(*   LiveSpec    the same with valid requests only and the fairness of the *)
(*               event loop;                                               *)
(*   ExtractSpec extractGeneratedText applied to every response shape of   *)
(*               the bounded set Data.                                     *)
(***************************************************************************)
EXTENDS Integers, Sequences, FiniteSets

VARIABLES
    pc,        \* [Reqs -> position of the request's handling]
    req,       \* [Reqs -> the HTTP request as the middleware delivers it]
    call,      \* [Reqs -> the argument of model.generateContent, once called]
    provider,  \* [Reqs -> state of the promise model.generateContent returned]
    resp,      \* [Reqs -> the HTTP response sent]
    sent,      \* [Reqs -> number of responses written for the request]
    xin,       \* argument of a direct call of extractGeneratedText
    xout,      \* what that call did
    xpc        \* position of that call

vars == <<pc, req, call, provider, resp, sent, xin, xout, xpc>>

---------------------------------------------------------------------------
(* Bounds of the model.                                                    *)

\* number of request slots (connections) of ConcSpec and LiveSpec
NumReqs == 2
\* longest prompt, in characters
MaxPromptLen == 2
\* longest uploaded file, in bytes
MaxBytes == 3
\* longest text a provider response carries at one path, in characters
MaxTextLen == 1

Reqs == 1..NumReqs

---------------------------------------------------------------------------
(* JavaScript values.  A value is a record of its kind, its characters (a  *)
(* string) and its own enumerable properties in insertion order (an object *)
(* or an array, whose keys are "0", "1", ...).  Kind "circular" is a       *)
(* property that refers back to an enclosing object; kind "getter" is an   *)
(* own enumerable accessor property whose getter throws; "thrown" is not a *)
(* value but the abrupt completion of an expression.                       *)

JSVal(k, s, ps) == [kind |-> k, str |-> s, kids |-> ps]

\* F applied to the value of e, e being evaluated once
Let(e, F(_)) == CHOOSE y \in {F(w) : w \in {e}} : TRUE

Undefined == JSVal("undefined", <<>>, <<>>)
Null == JSVal("null", <<>>, <<>>)
Circular == JSVal("circular", <<>>, <<>>)
Getter == JSVal("getter", <<>>, <<>>)
Thrown == JSVal("thrown", <<>>, <<>>)
Str(s) == JSVal("string", s, <<>>)
Obj(ps) == JSVal("object", <<>>, ps)
Arr(ps) == JSVal("array", <<>>, ps)

\* x == null || x === undefined, the test of ?. and ??
IsNullish(v) == v.kind \in {"undefined", "null"}

HasOwn(v, k) == \E i \in 1..Len(v.kids) : v.kids[i][1] = k

OwnProp(v, k) == v.kids[CHOOSE i \in 1..Len(v.kids) : v.kids[i][1] = k][2]

\* v?.k : undefined when v is nullish, else the property read
OptGet(v, k) ==
    IF v.kind = "thrown" THEN Thrown
    ELSE IF IsNullish(v) THEN Undefined
    ELSE IF v.kind \in {"object", "array"} /\ HasOwn(v, k)
         THEN (IF OwnProp(v, k).kind = "getter" THEN Thrown ELSE OwnProp(v, k))
    ELSE IF v.kind = "string" /\ k = "0" /\ Len(v.str) > 0
         THEN Str(<<v.str[1]>>)
    ELSE Undefined

RECURSIVE OptChain(_, _)
\* v?.k1?.k2 ... ?.kn
OptChain(v, keys) ==
    IF keys = <<>> THEN v
    ELSE Let(OptGet(v, Head(keys)), LAMBDA w : OptChain(w, Tail(keys)))

\* a ?? b : b only when a is nullish (b is not evaluated otherwise)
Coalesce(a, b) ==
    IF a.kind = "thrown" THEN Thrown
    ELSE IF IsNullish(a) THEN b
    ELSE a

\* the three probes of line 14, in the order written
PathResponseParts == <<"response", "candidates", "0", "content", "parts", "0", "text">>
PathParts == <<"candidates", "0", "content", "parts", "0", "text">>
PathResponseContent == <<"response", "candidates", "0", "content", "text">>

---------------------------------------------------------------------------
(* JSON.stringify(data, null, 2).  A string is a sequence of characters;   *)
(* the serialization is the sequence of its glyphs, a property name and    *)
(* each punctuation mark being one glyph.                                  *)

RECURSIVE Serializable(_)
\* JSON.stringify throws a TypeError on a circular structure, and whatever
\* a getter it reads throws
Serializable(v) ==
    /\ v.kind \notin {"circular", "getter", "thrown"}
    /\ \A i \in 1..Len(v.kids) : Serializable(v.kids[i][2])

RECURSIVE Indent(_)
Indent(n) == IF n = 0 THEN <<>> ELSE <<"  ">> \o Indent(n - 1)

\* the properties JSON.stringify writes: an object's undefined ones are left out
Written(v) ==
    IF v.kind = "object"
    THEN SelectSeq(v.kids, LAMBDA p : p[2].kind # "undefined")
    ELSE v.kids

RECURSIVE Ser(_, _)
RECURSIVE SerMembers(_, _, _)
SerMembers(isObj, ps, lvl) ==
    IF ps = <<>> THEN <<>>
    ELSE Indent(lvl)
         \o (IF isObj THEN <<"\"", Head(ps)[1], "\"", ":", " ">> ELSE <<>>)
         \o Let(Head(ps)[2], LAMBDA x : Ser(x, lvl))
         \o (IF Len(ps) > 1 THEN <<",", "\n">> ELSE <<>>)
         \o Let(Tail(ps), LAMBDA rest : SerMembers(isObj, rest, lvl))

Ser(v, lvl) ==
    IF v.kind \in {"null", "undefined"} THEN <<"null">>
    ELSE IF v.kind = "string" THEN <<"\"">> \o v.str \o <<"\"">>
    ELSE IF Written(v) = <<>> THEN (IF v.kind = "object" THEN <<"{}">> ELSE <<"[]">>)
    ELSE (IF v.kind = "object" THEN <<"{", "\n">> ELSE <<"[", "\n">>)
         \o Let(Written(v), LAMBDA ps : SerMembers(v.kind = "object", ps, lvl + 1))
         \o <<"\n">> \o Indent(lvl)
         \o (IF v.kind = "object" THEN <<"}">> ELSE <<"]">>)

\* JSON.stringify(v, null, 2): undefined for undefined, a throw for a
\* structure that cannot be serialized, else the pretty-printed text
JSONStringify(v) ==
    IF ~Serializable(v) THEN Thrown
    ELSE IF v.kind = "undefined" THEN Undefined
    ELSE Str(Ser(v, 0))

---------------------------------------------------------------------------
(* extractGeneratedText, lines 12-21.                                      *)

Return(v) == [outcome |-> "return", value |-> v]
Throw(m) == [outcome |-> "throw", value |-> Str(<<m>>)]
NotRun == [outcome |-> "none", value |-> Undefined]

CircularMessage == "Converting circular structure to JSON"
GetterMessage == "getter failed"

RECURSIVE HasGetter(_)
HasGetter(v) ==
    \/ v.kind = "getter"
    \/ \E i \in 1..Len(v.kids) : HasGetter(v.kids[i][2])

\* the message of what JSON.stringify throws on a value it cannot serialize
StringifyMessage(v) == IF HasGetter(v) THEN GetterMessage ELSE CircularMessage

\* line 14 with the second and the first probe exchanged
ProbeTextReordered(data) ==
    Coalesce(Coalesce(OptChain(data, PathParts),
                      OptChain(data, PathResponseParts)),
             OptChain(data, PathResponseContent))

\* line 14
ProbeText(data) ==
    Coalesce(Coalesce(OptChain(data, PathResponseParts),
                      OptChain(data, PathParts)),
             OptChain(data, PathResponseContent))

extractGeneratedText(data) ==
    LET text == ProbeText(data)
        json == JSONStringify(data)
    IN  IF text.kind # "thrown" /\ ~IsNullish(text)
        THEN Return(text)                       \* line 16, text ?? ...
        ELSE IF json.kind = "thrown"
             \* line 16 or line 19: the catch block serializes again, and
             \* nothing catches what that throws
             THEN Throw(StringifyMessage(data))
             ELSE Return(json)

---------------------------------------------------------------------------
(* Provider responses.  Shape(t1, t2, t3) is a response that carries t1 at *)
(* response.candidates[0].content.parts[0].text, t2 at                     *)
(* candidates[0].content.parts[0].text and t3 at                           *)
(* response.candidates[0].content.text; Absent leaves the property out.    *)

Absent == JSVal("absent", <<>>, <<>>)

\* the properties of a literal, the absent ones left out
Props(ps) == SelectSeq(ps, LAMBDA p : p[2].kind # "absent")

Shape(t1, t2, t3) ==
    Obj(<< <<"response",
             Obj(<< <<"candidates",
                      Arr(<< <<"0",
                               Obj(<< <<"content",
                                        Obj(Props(<< <<"parts", Arr(<< <<"0", Obj(Props(<< <<"text", t1>> >>))>> >>)>>,
                                                     <<"text", t3>> >>))>> >>)>> >>)>> >>)>>,
           <<"candidates",
             Arr(<< <<"0",
                      Obj(<< <<"content",
                               Obj(<< <<"parts", Arr(<< <<"0", Obj(Props(<< <<"text", t2>> >>))>> >>)>> >>)>> >>)>> >>)>> >>)

\* v with one more own property
WithProp(v, k, x) == [v EXCEPT !.kids = Append(@, <<k, x>>)]

SeqsUpTo(S, n) == UNION {[1..k -> S] : k \in 0..n}

TextChars == {"a", "b"}
Texts == {Str(s) : s \in SeqsUpTo(TextChars, MaxTextLen)}
Leaves == {Absent, Undefined, Null} \cup Texts

Shapes == {Shape(t1, t2, t3) : t1 \in Leaves, t2 \in Leaves, t3 \in Leaves}

\* responses of no expected shape, among them ones that cannot be
\* serialized or whose properties cannot be read
OddData ==
    { Undefined, Null, Str(<<"a">>), Obj(<<>>), Arr(<<>>),
      Obj(<< <<"response", Null>> >>),
      Obj(<< <<"response", Obj(<< <<"candidates", Arr(<<>>)>> >>)>> >>),
      Obj(<< <<"candidates", Str(<<"a">>)>> >>),
      Obj(<< <<"error", Undefined>>, <<"items", Arr(<< <<"0", Undefined>> >>)>> >>),
      Obj(<< <<"self", Circular>> >>),
      Obj(<< <<"response", Getter>> >>),
      WithProp(Shape(Str(<<"a">>), Absent, Absent), "self", Circular),
      WithProp(Shape(Absent, Absent, Absent), "self", Circular),
      WithProp(Shape(Absent, Str(<<"a">>), Absent), "usage", Getter) }

Data == Shapes \cup OddData

---------------------------------------------------------------------------
(* A direct call of extractGeneratedText.                                  *)

ExtractCall ==
    /\ xpc = "ready"
    /\ xout' = extractGeneratedText(xin)
    /\ xpc' = "done"
    /\ UNCHANGED <<pc, req, call, provider, resp, sent, xin>>

---------------------------------------------------------------------------
(* Requests.  prompt is req.body.prompt (a string, or undefined when the   *)
(* field is missing); file is req.file as multer's memory storage sets it. *)

Endpoints == {"text", "image", "document", "audio"}

PromptChars == {" ", "a"}
Prompts == {Undefined} \cup {Str(s) : s \in SeqsUpTo(PromptChars, MaxPromptLen)}

Bytes == {0, 77, 255}
MimeTypes == {"image/png", "application/pdf"}

NoFile == [present |-> FALSE, buffer |-> <<>>, mimetype |-> ""]
File(b, m) == [present |-> TRUE, buffer |-> b, mimetype |-> m]
Files == {NoFile} \cup {File(b, m) : b \in SeqsUpTo(Bytes, MaxBytes), m \in MimeTypes}

Request(e, p, f, u) == [endpoint |-> e, prompt |-> p, file |-> f, uploadFault |-> u]
NoRequest == Request("none", Undefined, NoFile, FALSE)

\* what a client may send on one connection: a JSON body to /generate-text,
\* a multipart body (which multer may fail to parse) to the other three
Requests ==
    {Request("text", p, NoFile, FALSE) : p \in Prompts}
    \cup {Request(e, p, f, u) : e \in Endpoints \ {"text"}, p \in Prompts,
                                f \in Files, u \in BOOLEAN}

\* the prompt of the r-th of several simultaneous requests: r characters
ConcPrompt(r) == Str([i \in 1..r |-> "a"])

ConcRequests(r) ==
    {Request("text", ConcPrompt(r), NoFile, FALSE)}
    \cup {Request(e, ConcPrompt(r), f, FALSE) :
            e \in Endpoints \ {"text"}, f \in {NoFile, File(<<77>>, "image/png")}}

\* the requests of LiveSpec: the r-th prompt, to /generate-text or with a
\* file to an attachment endpoint
LiveRequests(r) ==
    {Request("text", ConcPrompt(r), NoFile, FALSE)}
    \cup {Request(e, ConcPrompt(r), File(<<77>>, "image/png"), FALSE) :
            e \in Endpoints \ {"text"}}

---------------------------------------------------------------------------
(* Buffer.prototype.toString("base64"), line 66.  A base64 character is    *)
(* its index in the alphabet, 0..63; Pad is "=".                           *)

Pad == 64

RECURSIVE Base64NoPadSplit(_)
\* toString("base64") forgetting the bits of a partial group's last byte
Base64NoPadSplit(b) ==
    IF Len(b) = 0 THEN <<>>
    ELSE IF Len(b) = 1 THEN <<b[1] \div 4, 0, Pad, Pad>>
    ELSE IF Len(b) = 2 THEN <<b[1] \div 4, (b[1] % 4) * 16 + b[2] \div 16, 0, Pad>>
    ELSE <<b[1] \div 4, (b[1] % 4) * 16 + b[2] \div 16,
           (b[2] % 16) * 4 + b[3] \div 64, b[3] % 64>>
         \o Base64NoPadSplit(SubSeq(b, 4, Len(b)))

RECURSIVE Base64(_)
Base64(b) ==
    IF Len(b) = 0 THEN <<>>
    ELSE IF Len(b) = 1 THEN <<b[1] \div 4, (b[1] % 4) * 16, Pad, Pad>>
    ELSE IF Len(b) = 2
         THEN <<b[1] \div 4, (b[1] % 4) * 16 + b[2] \div 16, (b[2] % 16) * 4, Pad>>
    ELSE <<b[1] \div 4, (b[1] % 4) * 16 + b[2] \div 16,
           (b[2] % 16) * 4 + b[3] \div 64, b[3] % 64>>
         \o Base64(SubSeq(b, 4, Len(b)))

---------------------------------------------------------------------------
(* The parts handed to model.generateContent.                              *)

RECURSIVE TrimStart(_)
TrimStart(s) == IF s # <<>> /\ Head(s) = " " THEN TrimStart(Tail(s)) ELSE s

RECURSIVE TrimEnd(_)
TrimEnd(s) ==
    IF s # <<>> /\ s[Len(s)] = " " THEN TrimEnd(SubSeq(s, 1, Len(s) - 1)) ELSE s

\* String.prototype.trim
Trim(s) == TrimEnd(TrimStart(s))

\* a text part of the trimmed string
TextPartTrimmed(v) ==
    [type |-> "text", text |-> Trim(v.str), data |-> <<>>, mimeType |-> ""]

\* a string given to generateContent, alone or first in the array
TextPart(v) == [type |-> "text", text |-> v.str, data |-> <<>>, mimeType |-> ""]

\* fileToGenerativePart, lines 63-70
fileToGenerativePart(buffer, mimeType) ==
    [type |-> "inlineData", text |-> <<>>, data |-> Base64(buffer), mimeType |-> mimeType]

\* !x testing only for a missing value, an empty string passing
FalsyMissingOnly(v) == IsNullish(v)

\* !x of a string or undefined
Falsy(v) == IsNullish(v) \/ (v.kind = "string" /\ v.str = <<>>)

\* a ?? b written where a || b stands
OrElseNullish(a, b) == IF IsNullish(a) THEN b ELSE a

\* a || b
OrElse(a, b) == IF Falsy(a) THEN b ELSE a

DefaultDocumentPrompt ==
    Str(<<"R","i","n","g","k","a","s"," ","d","o","k","u","m","e","n"," ","i","n","i">>)
DefaultAudioPrompt ==
    Str(<<"T","r","a","n","s","k","r","i","p","s","i","k","a","n"," ","a","u","d","i","o"," ","i","n","i">>)

---------------------------------------------------------------------------
(* The provider.  model.generateContent returns a promise; whether and how *)
(* it settles is the provider's choice, made here when the call is placed. *)

NoPromise == [state |-> "none", fate |-> "none", data |-> Undefined, message |-> ""]
Pending(f, d, m) == [state |-> "pending", fate |-> f, data |-> d, message |-> m]

ErrMsgs == {"fetch failed", "API key not valid"}

\* a response that carries the text of the call's first part at the first path
Echo(parts) == Shape(Str(parts[1].text), Absent, Absent)

\* the promises a call with these parts may get from a provider env: a
\* response (the echo or one of env.odd), an error with a message of
\* env.msgs, or nothing ever
Promises(parts, env) ==
    {Pending("returns", d, "") : d \in {Echo(parts)} \cup env.odd}
    \cup {Pending("raises", Undefined, m) : m \in env.msgs}
    \cup {Pending("hangs", Undefined, "")}

\* the provider of ConcSpec: it echoes, fails or hangs
ConcEnv == [odd |-> {}, msgs |-> ErrMsgs]

\* the provider of LiveSpec: it echoes, fails or hangs
LiveEnv == [odd |-> {}, msgs |-> {"fetch failed"}]

\* the responses other than the echo that Spec lets the provider return
HandlerData ==
    { Undefined, Obj(<<>>), Obj(<< <<"self", Circular>> >>),
      Obj(<< <<"response", Getter>> >>),
      Shape(Absent, Absent, Str(<<"b">>)) }

\* the provider of Spec
SpecEnv == [odd |-> HandlerData, msgs |-> ErrMsgs]

---------------------------------------------------------------------------
(* Responses.                                                              *)

NoResponse == [status |-> 0, kind |-> "none", result |-> Undefined, message |-> ""]
\* res.json({ result })
Result(v) == [status |-> 200, kind |-> "result", result |-> v, message |-> ""]
\* res.status(code).json({ message })
Message(code, m) == [status |-> code, kind |-> "message", result |-> Undefined, message |-> m]
\* Express's default error handler: the status of the error or 500, an HTML page
DefaultError == [status |-> 500, kind |-> "html", result |-> Undefined, message |-> "Unexpected field"]

PromptMissing == "Belum ada prompt yang diisi!"
ImageMissing == "File 'image' harus di-upload!"
DocumentMissing == "File 'document' harus di-upload!"
AudioMissing == "File 'audio' harus di-upload!"

---------------------------------------------------------------------------
(* Actions.                                                                *)

\* a request arrives on connection r
Arrive(r, rs) ==
    /\ pc[r] = "idle"
    /\ \E q \in rs : req' = [req EXCEPT ![r] = q]
    /\ pc' = [pc EXCEPT ![r] = "arrived"]
    /\ UNCHANGED <<call, provider, resp, sent, xin, xout, xpc>>

\* the answered request is over: what it held is dropped, and the server
\* (app.listen, line 154) takes the next request on the connection
Close(r) ==
    /\ pc[r] = "done"
    /\ pc' = [pc EXCEPT ![r] = "idle"]
    /\ req' = [req EXCEPT ![r] = NoRequest]
    /\ call' = [call EXCEPT ![r] = <<>>]
    /\ provider' = [provider EXCEPT ![r] = NoPromise]
    /\ resp' = [resp EXCEPT ![r] = NoResponse]
    /\ sent' = [sent EXCEPT ![r] = 0]
    /\ UNCHANGED <<xin, xout, xpc>>

\* the response is written and the handling of r ends
Respond(r, rs) ==
    /\ resp' = [resp EXCEPT ![r] = rs]
    /\ sent' = [sent EXCEPT ![r] = @ + 1]
    /\ pc' = [pc EXCEPT ![r] = "done"]

\* model.generateContent(parts) is called and awaited
Place(r, parts, env) ==
    /\ \E p \in Promises(parts, env) : provider' = [provider EXCEPT ![r] = p]
    /\ call' = [call EXCEPT ![r] = parts]
    /\ pc' = [pc EXCEPT ![r] = "awaiting"]
    /\ UNCHANGED <<resp, sent>>

\* express.json() (line 36) or upload.single(field) (lines 73, 96, 118) runs
\* before the handler; an error of the upload parser goes to next(err), past
\* the handler and its try/catch, to Express's default error handler
Middleware(r) ==
    /\ pc[r] = "arrived"
    /\ \/ /\ req[r].uploadFault
          /\ Respond(r, DefaultError)
       \/ /\ ~req[r].uploadFault
          /\ pc' = [pc EXCEPT ![r] = "handler"]
          /\ UNCHANGED <<resp, sent>>
    /\ UNCHANGED <<req, call, provider, xin, xout, xpc>>

\* POST /generate-text, lines 41-49, up to the await
GenerateText(r, env) ==
    /\ pc[r] = "handler"
    /\ req[r].endpoint = "text"
    /\ LET prompt == req[r].prompt
       IN  \/ /\ Falsy(prompt)
              /\ Respond(r, Message(400, PromptMissing))
              /\ UNCHANGED <<call, provider>>
           \/ /\ ~Falsy(prompt)
              /\ Place(r, <<TextPart(prompt)>>, env)
    /\ UNCHANGED <<req, xin, xout, xpc>>

\* POST /generate-from-image, lines 73-86, up to the await
GenerateFromImage(r, env) ==
    /\ pc[r] = "handler"
    /\ req[r].endpoint = "image"
    /\ LET prompt == req[r].prompt
           file == req[r].file
       IN  \/ /\ Falsy(prompt)
              /\ Respond(r, Message(400, PromptMissing))
              /\ UNCHANGED <<call, provider>>
           \/ /\ ~Falsy(prompt)
              /\ ~file.present
              /\ Respond(r, Message(400, ImageMissing))
              /\ UNCHANGED <<call, provider>>
           \/ /\ ~Falsy(prompt)
              /\ file.present
              /\ Place(r, <<TextPart(prompt),
                            fileToGenerativePart(file.buffer, file.mimetype)>>, env)
    /\ UNCHANGED <<req, xin, xout, xpc>>

\* POST /generate-from-document, lines 96-108, up to the await
GenerateFromDocument(r, env) ==
    /\ pc[r] = "handler"
    /\ req[r].endpoint = "document"
    /\ LET prompt == OrElse(req[r].prompt, DefaultDocumentPrompt)
           file == req[r].file
       IN  \/ /\ ~file.present
              /\ Respond(r, Message(400, DocumentMissing))
              /\ UNCHANGED <<call, provider>>
           \/ /\ file.present
              /\ Place(r, <<TextPart(prompt),
                            fileToGenerativePart(file.buffer, file.mimetype)>>, env)
    /\ UNCHANGED <<req, xin, xout, xpc>>

\* POST /generate-from-audio, lines 118-130, up to the await
GenerateFromAudio(r, env) ==
    /\ pc[r] = "handler"
    /\ req[r].endpoint = "audio"
    /\ LET prompt == OrElse(req[r].prompt, DefaultAudioPrompt)
           file == req[r].file
       IN  \/ /\ ~file.present
              /\ Respond(r, Message(400, AudioMissing))
              /\ UNCHANGED <<call, provider>>
           \/ /\ file.present
              /\ Place(r, <<TextPart(prompt),
                            fileToGenerativePart(file.buffer, file.mimetype)>>, env)
    /\ UNCHANGED <<req, xin, xout, xpc>>

\* the provider answers the call of r, or fails it; a call that hangs never settles
Settle(r) ==
    /\ pc[r] = "awaiting"
    /\ provider[r].state = "pending"
    /\ provider[r].fate \in {"returns", "raises"}
    /\ provider' = [provider EXCEPT ![r].state =
                        IF provider[r].fate = "returns" THEN "fulfilled" ELSE "rejected"]
    /\ UNCHANGED <<pc, req, call, resp, sent, xin, xout, xpc>>

\* a continuation that runs only once the requests before it are answered
ReadyInOrder(r) ==
    /\ provider[r].state \in {"fulfilled", "rejected"}
    /\ \A q \in Reqs : q < r => pc[q] # "awaiting"

\* the await of r is over: its own promise has settled
Ready(r) == provider[r].state \in {"fulfilled", "rejected"}

\* the settled promise of whichever request settled, as one shared variable
\* would hold it
AwaitedShared(r) ==
    provider[CHOOSE q \in Reqs : provider[q].state \in {"fulfilled", "rejected"}]

\* the promise the handler of r awaits: the one its own call returned
Awaited(r) == provider[r]

\* the response written after the await of promise p: res.json of the text
\* extracted (lines 50, 88, 110, 132) or, from the catch block, 500 with the
\* message of what the call or the extraction threw (lines 51-54 and alike)
Answer(p) ==
    LET x == extractGeneratedText(p.data)
    IN  IF p.state = "rejected" THEN Message(500, p.message)
        ELSE IF x.outcome = "throw" THEN Message(500, x.value.str[1])
        ELSE Result(x.value)

\* after the await: lines 50-54, 88-92, 110-114, 132-136
Resume(r) ==
    /\ pc[r] = "awaiting"
    /\ Ready(r)
    /\ Respond(r, Answer(Awaited(r)))
    /\ UNCHANGED <<req, call, provider, xin, xout, xpc>>

---------------------------------------------------------------------------
(* Specifications.                                                         *)

Idle ==
    /\ pc = [r \in Reqs |-> "idle"]
    /\ req = [r \in Reqs |-> NoRequest]
    /\ call = [r \in Reqs |-> <<>>]
    /\ provider = [r \in Reqs |-> NoPromise]
    /\ resp = [r \in Reqs |-> NoResponse]
    /\ sent = [r \in Reqs |-> 0]

Init ==
    /\ Idle
    /\ xin = Undefined
    /\ xout = NotRun
    /\ xpc = "off"

\* one connection, every request of Requests, every response of HandlerData
Next ==
    \E r \in {1} :
        \/ Arrive(r, Requests)
        \/ Middleware(r)
        \/ GenerateText(r, SpecEnv)
        \/ GenerateFromImage(r, SpecEnv)
        \/ GenerateFromDocument(r, SpecEnv)
        \/ GenerateFromAudio(r, SpecEnv)
        \/ Settle(r)
        \/ Resume(r)
        \/ Close(r)

Spec == Init /\ [][Next]_vars

\* NumReqs connections at once, the provider echoing or failing or hanging
ConcNext ==
    \E r \in Reqs :
        \/ Arrive(r, ConcRequests(r))
        \/ Middleware(r)
        \/ GenerateText(r, ConcEnv)
        \/ GenerateFromImage(r, ConcEnv)
        \/ GenerateFromDocument(r, ConcEnv)
        \/ GenerateFromAudio(r, ConcEnv)
        \/ Settle(r)
        \/ Resume(r)
        \/ Close(r)

ConcSpec == Init /\ [][ConcNext]_vars

\* what the server and the provider do for request r once it has arrived
Handle(r) ==
    \/ Middleware(r)
    \/ GenerateText(r, LiveEnv)
    \/ GenerateFromImage(r, LiveEnv)
    \/ GenerateFromDocument(r, LiveEnv)
    \/ GenerateFromAudio(r, LiveEnv)
    \/ Settle(r)
    \/ Resume(r)

\* NumReqs connections, one valid request on each
LiveNext ==
    \E r \in Reqs :
        \/ Arrive(r, LiveRequests(r))
        \/ Handle(r)

\* the event loop does not idle while a callback is ready to run, and a
\* provider call that returns or raises does so eventually: some step that
\* is possible is taken (nothing is assumed about which request's)
LiveFair == WF_vars(\E r \in Reqs : Handle(r))

LiveSpec == Init /\ [][LiveNext]_vars /\ LiveFair

ExtractInit ==
    /\ Idle
    /\ xin \in Data
    /\ xout = NotRun
    /\ xpc = "ready"

ExtractNext == ExtractCall

ExtractSpec == ExtractInit /\ [][ExtractNext]_vars

---------------------------------------------------------------------------
(* Claims.                                                                 *)

\* the request was handed to its handler
Handled(r) == pc[r] \in {"awaiting", "done"} /\ ~req[r].uploadFault

PromptGiven(q) == q.prompt.kind = "string" /\ Len(q.prompt.str) > 0

\* the request lacks what its endpoint requires
Invalid(q) ==
    \/ q.endpoint \in {"text", "image"} /\ ~PromptGiven(q)
    \/ q.endpoint \in {"image", "document", "audio"} /\ ~q.file.present

\* C1: a request that fails validation (no or empty prompt on /generate-text
\* and /generate-from-image, no attachment on the three attachment endpoints)
\* never reaches the provider, and its handler answers it with 400, once.
C1_InvalidRejected ==
    \A r \in Reqs :
        Invalid(req[r]) =>
            /\ call[r] = <<>>
            /\ provider[r] = NoPromise
            /\ pc[r] # "awaiting"
            /\ (pc[r] = "done" /\ ~req[r].uploadFault =>
                    resp[r].status = 400 /\ resp[r].kind = "message" /\ sent[r] = 1)

C1_Witness ==
    \E r \in Reqs :
        /\ pc[r] = "done"
        /\ req[r].endpoint = "image"
        /\ PromptGiven(req[r])
        /\ ~req[r].file.present
        /\ resp[r] = Message(400, ImageMissing)

\* C2 as stated: on /generate-text the provider gets one Text part equal to
\* the trimmed prompt, and a prompt that is empty once trimmed is rejected
\* with 400 and not sent.
C2_TrimmedPromptSent ==
    \A r \in Reqs :
        (req[r].endpoint = "text" /\ Handled(r) /\ PromptGiven(req[r])) =>
            IF Trim(req[r].prompt.str) = <<>>
            THEN call[r] = <<>> /\ (pc[r] = "done" => resp[r].status = 400)
            ELSE call[r] = <<[type |-> "text", text |-> Trim(req[r].prompt.str),
                              data |-> <<>>, mimeType |-> ""]>>

\* C2 amended: on /generate-text the provider gets one Text part equal to the
\* prompt exactly as supplied, whitespace included; only a missing or
\* zero-length prompt is rejected with 400, so a prompt of whitespace is sent.
C2_PromptSentAsSupplied ==
    \A r \in Reqs :
        (req[r].endpoint = "text" /\ Handled(r)) =>
            IF PromptGiven(req[r])
            THEN call[r] = <<[type |-> "text", text |-> req[r].prompt.str,
                              data |-> <<>>, mimeType |-> ""]>>
            ELSE call[r] = <<>> /\ resp[r].status = 400

C2_Witness ==
    \E r \in Reqs :
        /\ req[r].endpoint = "text"
        /\ req[r].prompt = Str(<<" ", "a">>)
        /\ pc[r] = "awaiting"
        /\ Len(call[r]) = 1
        /\ call[r][1].text = <<" ", "a">>

\* a probe found a defined, non-null value
Resolves(v) == v.kind \notin {"undefined", "null", "thrown"}

AtResponseParts == OptChain(xin, PathResponseParts)
AtParts == OptChain(xin, PathParts)
AtResponseContent == OptChain(xin, PathResponseContent)

\* C3: the extractor returns the value at the first of the three paths, in
\* the order response.candidates[0].content.parts[0].text,
\* candidates[0].content.parts[0].text, response.candidates[0].content.text,
\* that holds a defined, non-null value, an empty string included.
C3_FirstPathWins ==
    xpc = "done" =>
        /\ Resolves(AtResponseParts) => xout = Return(AtResponseParts)
        /\ (AtResponseParts.kind \in {"undefined", "null"} /\ Resolves(AtParts)) =>
                xout = Return(AtParts)
        /\ (AtResponseParts.kind \in {"undefined", "null"}
            /\ AtParts.kind \in {"undefined", "null"}
            /\ Resolves(AtResponseContent)) =>
                xout = Return(AtResponseContent)

C3_Witness ==
    /\ xpc = "done"
    /\ AtResponseParts = Str(<<>>)
    /\ AtParts = Str(<<"a">>)
    /\ AtResponseContent = Str(<<"b">>)
    /\ xout = Return(Str(<<>>))

\* C4 as stated: for an input none of whose three paths resolves (undefined
\* and null among them) the extractor does not throw and returns a non-empty
\* string, the pretty-printed serialization of the input.
C4_FallbackIsSerialization ==
    (/\ xpc = "done"
     /\ ~Resolves(AtResponseParts)
     /\ ~Resolves(AtParts)
     /\ ~Resolves(AtResponseContent)) =>
        /\ xout.outcome = "return"
        /\ xout.value.kind = "string"
        /\ Len(xout.value.str) > 0
        /\ Serializable(xin) => xout.value.str = Ser(xin, 0)

\* C5 as stated: once the provider call has returned a value, whatever its
\* shape, the extractor returns and the request is answered 200, never 500.
C5_ExtractionNever500 ==
    \A r \in Reqs :
        (pc[r] = "done" /\ provider[r].state = "fulfilled") =>
            resp[r].status = 200 /\ resp[r].kind = "result"

RECURSIVE Base64Decode(_)
\* the bytes a base64 text stands for
Base64Decode(d) ==
    IF Len(d) < 4 THEN <<>>
    ELSE (IF d[3] = Pad THEN <<d[1] * 4 + d[2] \div 16>>
          ELSE IF d[4] = Pad
               THEN <<d[1] * 4 + d[2] \div 16, (d[2] % 16) * 16 + d[3] \div 4>>
          ELSE <<d[1] * 4 + d[2] \div 16, (d[2] % 16) * 16 + d[3] \div 4,
                 (d[3] % 4) * 64 + d[4]>>)
         \o Base64Decode(SubSeq(d, 5, Len(d)))

\* C6: an attachment endpoint hands the provider exactly two parts, the text
\* and then the blob; the blob's data decodes from base64 to the uploaded
\* bytes and its media type is the upload's declared type.
C6_TextThenBlob ==
    \A r \in Reqs :
        (req[r].endpoint \in {"image", "document", "audio"} /\ call[r] # <<>>) =>
            /\ Len(call[r]) = 2
            /\ call[r][1].type = "text"
            /\ PromptGiven(req[r]) => call[r][1].text = req[r].prompt.str
            /\ call[r][2].type = "inlineData"
            /\ Len(call[r][2].data) % 4 = 0
            /\ \A i \in 1..Len(call[r][2].data) : call[r][2].data[i] \in 0..Pad
            /\ Base64Decode(call[r][2].data) = req[r].file.buffer
            /\ call[r][2].mimeType = req[r].file.mimetype

C6_Witness ==
    \E r \in Reqs :
        /\ req[r].endpoint = "image"
        /\ req[r].file = File(<<77, 255>>, "application/pdf")
        /\ pc[r] = "awaiting"
        /\ Len(call[r]) = 2
        /\ call[r][2].data = <<19, 31, 60, Pad>>

\* C7: on /generate-from-document and /generate-from-audio a request with an
\* attachment is not rejected for its prompt; the Text part is the default
\* string of the endpoint when the prompt is missing or empty, and the prompt
\* itself otherwise.
C7_DefaultPrompt ==
    \A r \in Reqs :
        (req[r].endpoint \in {"document", "audio"} /\ req[r].file.present /\ Handled(r)) =>
            /\ resp[r].status # 400
            /\ Len(call[r]) = 2
            /\ call[r][1].type = "text"
            /\ call[r][1].text =
                 IF PromptGiven(req[r]) THEN req[r].prompt.str
                 ELSE IF req[r].endpoint = "document" THEN DefaultDocumentPrompt.str
                 ELSE DefaultAudioPrompt.str

C7_Witness ==
    \E r \in Reqs :
        /\ req[r].endpoint = "audio"
        /\ req[r].prompt = Str(<<>>)
        /\ req[r].file.present
        /\ pc[r] = "done"
        /\ resp[r].status = 200
        /\ call[r][1].text = DefaultAudioPrompt.str

\* C8: with several requests in flight, each provider call carries the prompt
\* and the attachment of its own request, and each 200 carries the text of
\* the provider's response to that same request (here the echo of its own
\* prompt, which differs from every other request's).
C8_OwnResult ==
    \A r \in Reqs :
        /\ call[r] # <<>> =>
              /\ call[r][1].text = req[r].prompt.str
              /\ Len(call[r]) = (IF req[r].endpoint = "text" THEN 1 ELSE 2)
              /\ Len(call[r]) = 2 =>
                    /\ call[r][2].data = Base64(req[r].file.buffer)
                    /\ call[r][2].mimeType = req[r].file.mimetype
        /\ resp[r].kind = "result" => resp[r].result = Str(req[r].prompt.str)
        /\ resp[r].kind = "message" /\ resp[r].status = 500 =>
              resp[r].message = provider[r].message

C8_Witness ==
    \E r \in Reqs : \E q \in Reqs :
        /\ q < r
        /\ pc[q] = "awaiting"
        /\ provider[q].state = "fulfilled"
        /\ pc[r] = "done"
        /\ resp[r] = Result(ConcPrompt(r))
        /\ req[q].prompt # req[r].prompt

\* the provider call of r never returns
Hung(r) == pc[r] = "awaiting" /\ provider[r].fate = "hangs"

\* the provider call of r is one that returns or raises, and r awaits it
Waiting(r) == pc[r] = "awaiting" /\ provider[r].fate \in {"returns", "raises"}

\* C9: a request whose provider call never returns stays unanswered for good
\* (nothing times it out, cancels it or retries it), and every other request
\* in flight whose provider call returns or raises is eventually answered:
\* it does not wait forever, and it stops waiting only by being answered once.
C9_HangBlocksNoOther ==
    /\ [][\A r \in Reqs :
            /\ Hung(r) => (Hung(r)' /\ resp'[r] = NoResponse /\ sent'[r] = 0
                           /\ call'[r] = call[r])
            /\ (Waiting(r) /\ ~Waiting(r)') => (pc'[r] = "done" /\ sent'[r] = 1)]_vars
    /\ \A r \in Reqs : []<>~Waiting(r)

C9_Witness ==
    \E r \in Reqs : \E q \in Reqs :
        /\ q < r
        /\ Hung(q)
        /\ pc[r] = "done"
        /\ call[r] # <<>>
        /\ resp[r].status = 200

\* the handling of the request failed after validation
Failed(r) ==
    \/ req[r].uploadFault
    \/ provider[r].state = "rejected"
    \/ provider[r].state = "fulfilled"
       /\ extractGeneratedText(provider[r].data).outcome = "throw"

\* C10 as stated: a request that passes validation and whose handling fails
\* for any other reason, a fault of the upload parser included, is answered
\* once, with 500 and a JSON body {message}.
C10_FailureIs500Json ==
    \A r \in Reqs :
        (pc[r] = "done" /\ ~Invalid(req[r]) /\ Failed(r)) =>
            /\ resp[r].status = 500
            /\ resp[r].kind = "message"
            /\ sent[r] = 1

=============================================================================
